---------------------------- MODULE Spec2Model ----------------------------
(***************************************************************************)
(* Model of src/hmm.py: the HMM parameter container (class HMM), the       *)
(* forward-backward and Viterbi routines of HMMNumpy and HMMTensorflow.    *)
(*                                                                         *)
(* Numbers.  The code computes in float64.  The model computes in decimal  *)
(* fixed point: a probability p is the integer p * SCALE, a log-domain     *)
(* score x is the integer x * SCALE (milli-nats), products and quotients   *)
(* are rounded to the nearest unit.  Rounding, underflow of exp to 0,      *)
(* log(0) = -inf and 0/0 = nan all exist in both formats; only the         *)
(* magnitudes at which they happen differ (exp underflows at |y - w| >= 4  *)
(* here, at |y - w| >= 373 in float64).                                    *)
(*                                                                         *)
(* Indices.  State indices and time indices are 0-based as in the code;    *)
(* At(a, i) reads element i of a 0-based array held as a TLA+ sequence.    *)
(***************************************************************************)
EXTENDS Integers, Sequences, FiniteSets, TLC

VARIABLES hmm, ctor, calls

vars == <<hmm, ctor, calls>>

---------------------------------------------------------------------------
(* Bounds of the explored inputs.                                          *)

\* largest number of states K of a constructed model
MaxK == 3
\* longest observation sequence passed to an inference call
MaxT == 3
\* longest observation sequence decoded on the two-state chain of the driver
ToyMaxT == 9
\* longest observation sequence of the calls that share one model
SharedMaxT == 2

---------------------------------------------------------------------------
(* float64 values                                                          *)

\* one unit of the fixed-point format: 1.0 is SCALE
SCALE == 1000
\* np.log(0.0): -inf
NegInf == -100000000
\* 0.0 / 0.0: nan
NaN == -1

Range(f) == {f[i] : i \in DOMAIN f}

Abs(x) == IF x < 0 THEN -x ELSE x

\* a / b rounded to the nearest unit (a >= 0, b > 0)
RoundDiv(a, b) == (a + b \div 2) \div b

\* element i of a 0-based array
At(a, i) == a[i + 1]

\* a Python index i into an array of length n: -n .. n-1 are valid
IndexOK(i, n) == -n <= i /\ i < n

\* the 0-based position a valid Python index denotes
Pos(i, n) == IF i < 0 THEN n + i ELSE i

\* np.zeros(n)
Zeros(n) == [i \in 1..n |-> 0]

\* float addition in the log domain: -inf absorbs
LAdd(a, b) == IF a = NegInf \/ b = NegInf THEN NegInf ELSE a + b

\* np.log of a probability
LogClipped(p) ==
    CASE p = 0 -> -1386
      [] p = 250 -> -1386
      [] p = 333 -> -1099
      [] p = 500 -> -693
      [] p = 1000 -> 0

Log(p) ==
    CASE p = 0 -> NegInf
      [] p = 250 -> -1386
      [] p = 333 -> -1099
      [] p = 500 -> -693
      [] p = 1000 -> 0

\* np.exp of a log-likelihood x = -2000 * d, d a non-negative integer
Exp(x) ==
    CASE x = 0 -> 1000
      [] x = -2000 -> 135
      [] x = -4000 -> 18
      [] x = -6000 -> 2
      [] OTHER -> 0

\* builtin sum / np.sum of a vector
RECURSIVE Sum(_)
Sum(v) == IF v = <<>> THEN 0 ELSE v[1] + Sum(Tail(v))

\* np.max of a non-empty vector
VecMax(v) == CHOOSE m \in Range(v) : \A x \in Range(v) : x <= m

\* np.argmax / tf.argmax of a non-empty vector: the first occurrence of the
\* maximum.  numpy documents it.  TensorFlow documents no tie rule; its
\* kernel scans the reduced axis in index order with a strict comparison,
\* which keeps the first maximum.
ArgMaxLast(v) ==
    (CHOOSE i \in 1..Len(v) :
        v[i] = VecMax(v) /\ \A k \in (i+1)..Len(v) : v[k] # VecMax(v)) - 1

ArgMax(v) ==
    (CHOOSE i \in 1..Len(v) :
        v[i] = VecMax(v) /\ \A k \in 1..(i-1) : v[k] # VecMax(v)) - 1

\* column j (0-based) of a matrix held as a sequence of rows
Column(m, j) == [i \in 1..Len(m) |-> m[i][j + 1]]

\* P.shape of a 2-d array held as a sequence of rows
Shape(m) == <<Len(m), IF Len(m) = 0 THEN 0 ELSE Len(m[1])>>

---------------------------------------------------------------------------
(* class HMM                                                               *)

NoHMM == [K |-> -1]

\* HMM.__init__(w, P, p0): p0 is <<>> for None and <<v>> for the vector v.
\* The result is the raised error or the constructed object.
HMMInitNoCheckP(w, P, p0) ==
    LET K == Len(w) IN
    IF p0 # <<>> /\ Len(p0[1]) # K
    THEN [outcome |-> "ValueError", obj |-> NoHMM]
    ELSE LET q == IF p0 = <<>> THEN [i \in 1..K |-> RoundDiv(SCALE, K)]
                  ELSE p0[1]
         IN [outcome |-> "ok",
             obj |-> [w |-> w, K |-> K, P |-> P,
                      logP |-> [i \in 1..Len(P) |->
                                  [j \in 1..Len(P[i]) |-> Log(P[i][j])]],
                      p0 |-> q, logp0 |-> [i \in 1..K |-> Log(q[i])]]]

HMMInit(w, P, p0) ==
    LET K == Len(w) IN
    IF Shape(P) # <<K, K>>
    THEN [outcome |-> "ValueError", obj |-> NoHMM]
    ELSE IF p0 # <<>> /\ Len(p0[1]) # K
    THEN [outcome |-> "ValueError", obj |-> NoHMM]
    ELSE LET q == IF p0 = <<>> THEN [i \in 1..K |-> RoundDiv(SCALE, K)]
                  ELSE p0[1]
         IN [outcome |-> "ok",
             obj |-> [w |-> w, K |-> K, P |-> P,
                      logP |-> [i \in 1..K |-> [j \in 1..K |-> Log(P[i][j])]],
                      p0 |-> q, logp0 |-> [i \in 1..K |-> Log(q[i])]]]

\* HMM.log_lik(y): 2 * -np.abs(y - self.w)
log_lik(h, y) == [k \in 1..h.K |-> 2 * (-Abs(y - h.w[k])) * SCALE]

\* HMM.lik(y): np.exp(self.log_lik(y))
lik(h, y) == [k \in 1..h.K |-> Exp(log_lik(h, y)[k])]

---------------------------------------------------------------------------
(* One inference call: its arguments, its position and its local arrays.   *)

Idle ==
    [op |-> "idle", pc |-> "idle", outcome |-> "none", y |-> <<>>, nT |-> 0,
     t |-> 0, pathStates |-> <<>>, pathScores |-> <<>>, s |-> <<>>,
     forward |-> <<>>, backward |-> <<>>, posterior |-> <<>>]

\* the call ends by raising the exception e
Raise(r, e) == [r EXCEPT !.pc = "done", !.outcome = e]

\* a[i] = v for a valid Python index i
Store(a, i, v) == [a EXCEPT ![Pos(i, Len(a)) + 1] = v]

---------------------------------------------------------------------------
(* HMMNumpy.viterbi_decode                                                 *)

\* HMMNumpy._viterbi_partial_forward(scores):
\* tmpMat[i, j] = scores[i] + self.logP[i, j]
viterbi_partial_forward_transposed(h, scores) ==
    [i \in 1..h.K |-> [j \in 1..h.K |-> LAdd(scores[i], h.logP[j][i])]]

viterbi_partial_forward(h, scores) ==
    [i \in 1..h.K |-> [j \in 1..h.K |-> LAdd(scores[i], h.logP[i][j])]]

\* lines 109-117: set up the tables and pathScores[0]
ViterbiEntry(h, y) ==
    LET nT == Len(y)
        r == [Idle EXCEPT !.op = "np_viterbi", !.pc = "forward", !.y = y,
                          !.nT = nT, !.outcome = "running"]
    IN IF ~IndexOK(0, Len(y)) THEN Raise(r, "IndexError")
       ELSE [r EXCEPT
               !.pathStates = [t \in 1..nT |-> Zeros(h.K)],
               !.pathScores = Store([t \in 1..nT |-> Zeros(h.K)], 0,
                   [k \in 1..h.K |-> LAdd(h.logp0[k], log_lik(h, At(y, 0))[k])])]

\* lines 119-125: the iteration of the forward loop for enumerate index r.t
ViterbiForward(h, r) ==
    LET t == r.t
        yy == At(r.y, t + 1)
    IN IF ~IndexOK(t, Len(r.pathScores)) \/ ~IndexOK(t + 1, Len(r.pathScores))
       THEN Raise(r, "IndexError")
       ELSE IF h.K = 0 THEN Raise(r, "ValueError")
       ELSE LET tmpMat == viterbi_partial_forward(h, At(r.pathScores, t))
            IN [r EXCEPT
                  !.pathStates = Store(r.pathStates, t + 1,
                      [j \in 1..h.K |-> ArgMax(Column(tmpMat, j - 1))]),
                  !.pathScores = Store(r.pathScores, t + 1,
                      [j \in 1..h.K |->
                          LAdd(VecMax(Column(tmpMat, j - 1)), log_lik(h, yy)[j])]),
                  !.t = t + 1]

\* lines 128-129: s = zeros(nT); s[-1] = argmax(pathScores[-1])
ViterbiArgmax(h, r) ==
    IF ~IndexOK(-1, Len(r.pathScores)) \/ ~IndexOK(-1, r.nT)
    THEN Raise(r, "IndexError")
    ELSE IF h.K = 0 THEN Raise(r, "ValueError")
    ELSE [r EXCEPT !.s = Store(Zeros(r.nT), -1,
                                ArgMax(At(r.pathScores, Pos(-1, Len(r.pathScores))))),
                   !.pc = "backtrack", !.t = r.nT - 1]

\* lines 130-131: the iteration of the backtracking loop for t = r.t
ViterbiBacktrack(h, r) ==
    LET t == r.t IN
    IF ~IndexOK(t, Len(r.pathStates)) \/ ~IndexOK(t, Len(r.s))
       \/ ~IndexOK(t - 1, Len(r.s))
    THEN Raise(r, "IndexError")
    ELSE IF ~IndexOK(At(r.s, t), Len(At(r.pathStates, t)))
    THEN Raise(r, "IndexError")
    ELSE [r EXCEPT !.s = Store(r.s, t - 1, At(At(r.pathStates, t), At(r.s, t))),
                   !.t = t - 1]

\* line 133: return s, pathScores
ViterbiReturn(r) == [r EXCEPT !.pc = "done", !.outcome = "returned"]

\* the next step of a running numpy Viterbi call
ViterbiNext(h, r) ==
    CASE r.pc = "forward" /\ r.t < Len(r.y) - 1 -> ViterbiForward(h, r)
      [] r.pc = "forward" /\ r.t >= Len(r.y) - 1 -> ViterbiArgmax(h, r)
      [] r.pc = "backtrack" /\ r.t > 0 -> ViterbiBacktrack(h, r)
      [] r.pc = "backtrack" /\ r.t <= 0 -> ViterbiReturn(r)

\* HMMNumpy.viterbi_decode(y) run to its end
RECURSIVE ViterbiRun(_, _)
ViterbiRun(h, r) == IF r.pc = "done" THEN r ELSE ViterbiRun(h, ViterbiNext(h, r))

---------------------------------------------------------------------------
(* HMMTensorflow.viterbi_decode                                            *)

\* HMMTensorflow._viterbi_partial_forward(scores):
\* K copies of the scores as columns, plus self.logP
tf_viterbi_partial_forward_rows(h, scores) ==
    [i \in 1..h.K |-> [j \in 1..h.K |-> LAdd(scores[j], h.logP[i][j])]]

tf_viterbi_partial_forward(h, scores) ==
    [i \in 1..h.K |-> [j \in 1..h.K |-> LAdd(scores[i], h.logP[i][j])]]

\* lines 194-199: pathStates = [None], pathScores = [logp0 + log_lik(y[0])]
TFViterbiEntry(h, y, nT) ==
    LET r == [Idle EXCEPT !.op = "tf_viterbi", !.pc = "forward", !.y = y,
                          !.nT = nT, !.outcome = "running"]
    IN IF ~IndexOK(0, Len(y)) THEN Raise(r, "IndexError")
       ELSE [r EXCEPT
               !.pathStates = << <<>> >>,
               !.pathScores =
                   <<[k \in 1..h.K |-> LAdd(h.logp0[k], log_lik(h, At(y, 0))[k])]>>]

\* lines 201-207: the iteration of the forward loop for enumerate index r.t
TFViterbiForward(h, r) ==
    LET t == r.t
        yy == At(r.y, t + 1)
    IN IF ~IndexOK(t, Len(r.pathScores)) THEN Raise(r, "IndexError")
       ELSE IF h.K = 0 THEN Raise(r, "ValueError")
       ELSE LET tmpMat == tf_viterbi_partial_forward(h, At(r.pathScores, t))
            IN [r EXCEPT
                  !.pathStates = Append(r.pathStates,
                      [j \in 1..h.K |-> ArgMax(Column(tmpMat, j - 1))]),
                  !.pathScores = Append(r.pathScores,
                      [j \in 1..h.K |->
                          LAdd(VecMax(Column(tmpMat, j - 1)), log_lik(h, yy)[j])]),
                  !.t = t + 1]

\* lines 210-211: s = [0] * nT; s[-1] = tf.argmax(pathScores[-1], 0)
TFViterbiArgmax(h, r) ==
    LET n == IF r.nT < 0 THEN 0 ELSE r.nT IN
    IF ~IndexOK(-1, Len(r.pathScores)) \/ ~IndexOK(-1, n)
    THEN Raise(r, "IndexError")
    ELSE IF h.K = 0 THEN Raise(r, "ValueError")
    ELSE [r EXCEPT !.s = Store(Zeros(n), -1,
                                ArgMax(At(r.pathScores, Pos(-1, Len(r.pathScores))))),
                   !.pc = "backtrack", !.t = r.nT - 1]

\* lines 212-213: the iteration of the backtracking loop for t = r.t:
\* s[t - 1] = tf.gather(pathStates[t], s[t])
TFViterbiBacktrack(h, r) ==
    LET t == r.t IN
    IF ~IndexOK(t, Len(r.pathStates)) \/ ~IndexOK(t, Len(r.s))
       \/ ~IndexOK(t - 1, Len(r.s))
    THEN Raise(r, "IndexError")
    ELSE IF ~IndexOK(At(r.s, t), Len(At(r.pathStates, t)))
    THEN Raise(r, "IndexError")
    ELSE [r EXCEPT !.s = Store(r.s, t - 1, At(At(r.pathStates, t), At(r.s, t))),
                   !.t = t - 1]

\* line 215: return s, pathScores
TFViterbiReturn(r) == [r EXCEPT !.pc = "done", !.outcome = "returned"]

---------------------------------------------------------------------------
(* forward_backward of HMMNumpy and HMMTensorflow: the two bodies perform  *)
(* the same operations, on arrays and on lists of tensors.                 *)

\* a row that holds nan; a row is nan in all entries or in none
IsNaN(v) == \E i \in 1..Len(v) : v[i] = NaN

NaNs(n) == [i \in 1..n |-> NaN]

\* tmp / np.sum(tmp): 0 / 0 = nan
NormalizeByMax(tmp) ==
    IF IsNaN(tmp) \/ Sum(tmp) = 0 THEN NaNs(Len(tmp))
    ELSE [i \in 1..Len(tmp) |-> RoundDiv(tmp[i] * SCALE, VecMax(tmp))]

Normalize(tmp) ==
    IF IsNaN(tmp) \/ Sum(tmp) = 0 THEN NaNs(Len(tmp))
    ELSE [i \in 1..Len(tmp) |-> RoundDiv(tmp[i] * SCALE, Sum(tmp))]

\* 1.0 / self.K in every entry
UniformRow(K) == [k \in 1..K |-> RoundDiv(SCALE, K)]

\* np.multiply(np.matmul(f, self.P), self.lik(y))
ForwardTmp(h, f, y) ==
    IF IsNaN(f) THEN NaNs(h.K)
    ELSE [j \in 1..h.K |->
            RoundDiv(Sum([i \in 1..h.K |-> f[i] * h.P[i][j]]), SCALE)
              * lik(h, y)[j]]

\* (np.matrix(self.P) * np.diag(self.lik(y)) * np.matrix(b).transpose())
\* .transpose()
BackwardTmp(h, b, y) ==
    IF IsNaN(b) THEN NaNs(h.K)
    ELSE [i \in 1..h.K |->
            Sum([j \in 1..h.K |->
                   RoundDiv(h.P[i][j] * lik(h, y)[j], SCALE) * b[j]])]

\* lines 64-70: nT = y.size, the arrays, forward[0, :] = 1.0 / self.K
FBEntry(h, y, op) ==
    LET nT == Len(y)
        r == [Idle EXCEPT !.op = op, !.pc = "forward", !.y = y, !.nT = nT,
                          !.outcome = "running"]
    IN IF h.K = 0 THEN Raise(r, "ZeroDivisionError")
       ELSE [r EXCEPT
               !.posterior = [t \in 1..nT |-> Zeros(h.K)],
               !.forward = Store([t \in 1..(nT + 1) |-> Zeros(h.K)], 0,
                                 UniformRow(h.K)),
               !.backward = [t \in 1..(nT + 1) |-> Zeros(h.K)]]

\* lines 71-77: the iteration of the forward pass for t = r.t
FBForward(h, r) ==
    LET t == r.t IN
    [r EXCEPT !.forward = Store(r.forward, t + 1,
                  Normalize(ForwardTmp(h, At(r.forward, t), At(r.y, t)))),
              !.t = t + 1]

\* line 80: backward[-1, :] = 1.0 / self.K
FBBackwardInit(h, r) ==
    [r EXCEPT !.backward = Store(r.backward, -1, UniformRow(h.K)),
              !.pc = "backward", !.t = r.nT]

\* lines 81-88: the iteration of the backward pass for t = r.t
FBBackward(h, r) ==
    LET t == r.t IN
    [r EXCEPT !.backward = Store(r.backward, t - 1,
                  Normalize(BackwardTmp(h, At(r.backward, t), At(r.y, t - 1)))),
              !.t = t - 1]

\* forward * backward, element by element
RowProduct(f, b) ==
    IF IsNaN(f) \/ IsNaN(b) THEN NaNs(Len(f))
    ELSE [k \in 1..Len(f) |-> f[k] * b[k]]

\* lines 90-99: drop forward[0] and backward[-1], combine, normalize each
\* row and return posterior, forward, backward
FBCombine(h, r) ==
    LET fw == Tail(r.forward)
        bw == SubSeq(r.backward, 1, Len(r.backward) - 1)
    IN [r EXCEPT !.forward = fw, !.backward = bw,
                 !.posterior = [t \in 1..Len(fw) |->
                                  Normalize(RowProduct(fw[t], bw[t]))],
                 !.pc = "done", !.outcome = "returned"]

---------------------------------------------------------------------------
(* The inputs the callers supply.                                          *)

\* emission means w: 0, 1, .., K-1 as in the driver, or all equal
EmissionInputs(K) == {[i \in 1..K |-> i - 1], [i \in 1..K |-> 0]}

UniformP(K) == [i \in 1..K |-> UniformRow(K)]
IdentityP(K) == [i \in 1..K |-> [j \in 1..K |-> IF i = j THEN SCALE ELSE 0]]
\* the driver's chain [[0.5, 0.5], [0, 1]] for K states
ChainP(K) ==
    [i \in 1..K |-> [j \in 1..K |->
        IF i = K THEN (IF j = K THEN SCALE ELSE 0)
        ELSE IF j = i \/ j = i + 1 THEN SCALE \div 2 ELSE 0]]
ShiftP(K) == [i \in 1..K |-> [j \in 1..K |-> IF j = (i % K) + 1 THEN SCALE ELSE 0]]
FirstP(K) == [i \in 1..K |-> [j \in 1..K |-> IF j = 1 THEN SCALE ELSE 0]]
\* not row-stochastic; the constructor accepts it
ZeroP(K) == [i \in 1..K |-> Zeros(K)]

SquareInputs(K) ==
    {UniformP(K), IdentityP(K), ChainP(K), ShiftP(K), FirstP(K), ZeroP(K)}

\* transition arrays of every shape (r, c) up to MaxK + 1
TransitionInputs ==
    UNION {SquareInputs(r) : r \in 0..(MaxK + 1)}
      \cup {[i \in 1..r |-> [j \in 1..c |-> SCALE \div 2]] :
              r \in 1..(MaxK + 1), c \in 0..(MaxK + 1)}

\* p0: None (<<>>), or a vector of n entries that starts in state 0
InitialInputs ==
    {<<>>} \cup {<<[i \in 1..n |-> IF i = 1 THEN SCALE ELSE 0]>> :
                   n \in 0..(MaxK + 1)}

\* observation sequences of at most n values of vals
Observations(n, vals) == UNION {[1..k -> vals] : k \in 0..n}

\* 5 is far enough from every mean for exp to underflow
ObsValues == {0, 1, 5}

---------------------------------------------------------------------------
(* The state machine.  hmm is the constructed object (NoHMM before), ctor  *)
(* the last call of the constructor, calls[c] the inference call of        *)
(* caller c on the shared object.                                          *)

NoCtor == [outcome |-> "none", w |-> <<>>, P |-> <<>>, p0 |-> <<>>]

Init ==
    /\ hmm = NoHMM
    /\ ctor = NoCtor
    /\ calls = [c \in {1} |-> Idle]

InitShared ==
    /\ hmm = NoHMM
    /\ ctor = NoCtor
    /\ calls = [c \in {1, 2} |-> Idle]

\* HMMNumpy(w, P, p0) / HMMTensorflow(w, P, p0)
\* with w, P and p0 taken from the given inputs
Construct(ws, Ps, p0s) ==
    /\ hmm = NoHMM
    /\ ctor.outcome = "none"
    /\ \E w \in ws : \E P \in Ps : \E p0 \in p0s :
         /\ hmm' = HMMInit(w, P, p0).obj
         /\ ctor' = [outcome |-> HMMInit(w, P, p0).outcome,
                     w |-> w, P |-> P, p0 |-> p0]
    /\ UNCHANGED calls

\* the caller has caught the ValueError and may construct again
Recover ==
    /\ ctor.outcome = "ValueError"
    /\ ctor' = NoCtor
    /\ UNCHANGED <<hmm, calls>>

Free(c) == hmm # NoHMM /\ calls[c].pc = "idle"

Running(c, op, pc) ==
    /\ calls[c].op = op
    /\ calls[c].pc = pc

Set(c, r) ==
    /\ calls' = [calls EXCEPT ![c] = r]
    /\ UNCHANGED <<hmm, ctor>>

\* hmm.viterbi_decode(y) on HMMNumpy
\* for an observation sequence y of ys
CallViterbiInPlace(c, ys) ==
    /\ Free(c)
    /\ \E y \in ys :
         /\ calls' = [calls EXCEPT ![c] = ViterbiEntry(hmm, y)]
         /\ hmm' = IF ViterbiEntry(hmm, y).outcome = "running"
                   THEN [hmm EXCEPT
                           !.logp0 = At(ViterbiEntry(hmm, y).pathScores, 0)]
                   ELSE hmm
    /\ UNCHANGED ctor

CallViterbi(c, ys) ==
    /\ Free(c)
    /\ \E y \in ys : Set(c, ViterbiEntry(hmm, y))

StepViterbiForward(c) ==
    /\ Running(c, "np_viterbi", "forward")
    /\ calls[c].t < Len(calls[c].y) - 1
    /\ Set(c, ViterbiForward(hmm, calls[c]))

StepViterbiArgmax(c) ==
    /\ Running(c, "np_viterbi", "forward")
    /\ calls[c].t >= Len(calls[c].y) - 1
    /\ Set(c, ViterbiArgmax(hmm, calls[c]))

StepViterbiBacktrack(c) ==
    /\ Running(c, "np_viterbi", "backtrack")
    /\ calls[c].t > 0
    /\ Set(c, ViterbiBacktrack(hmm, calls[c]))

StepViterbiReturn(c) ==
    /\ Running(c, "np_viterbi", "backtrack")
    /\ calls[c].t <= 0
    /\ Set(c, ViterbiReturn(calls[c]))

\* hmm.viterbi_decode(y, nT) on HMMTensorflow
\* for y of ys and nT = len(y) + d, d of offsets
CallTFViterbi(c, ys, offsets) ==
    /\ Free(c)
    /\ \E y \in ys : \E d \in offsets :
         Set(c, TFViterbiEntry(hmm, y, Len(y) + d))

StepTFViterbiForward(c) ==
    /\ Running(c, "tf_viterbi", "forward")
    /\ calls[c].t < Len(calls[c].y) - 1
    /\ Set(c, TFViterbiForward(hmm, calls[c]))

StepTFViterbiArgmax(c) ==
    /\ Running(c, "tf_viterbi", "forward")
    /\ calls[c].t >= Len(calls[c].y) - 1
    /\ Set(c, TFViterbiArgmax(hmm, calls[c]))

StepTFViterbiBacktrack(c) ==
    /\ Running(c, "tf_viterbi", "backtrack")
    /\ calls[c].t > 0
    /\ Set(c, TFViterbiBacktrack(hmm, calls[c]))

StepTFViterbiReturn(c) ==
    /\ Running(c, "tf_viterbi", "backtrack")
    /\ calls[c].t <= 0
    /\ Set(c, TFViterbiReturn(calls[c]))

\* hmm.forward_backward(y) on HMMNumpy (op = "np_fb") or HMMTensorflow ("tf_fb")
CallFB(c, ys, ops) ==
    /\ Free(c)
    /\ \E y \in ys : \E op \in ops : Set(c, FBEntry(hmm, y, op))

IsFB(c, pc) ==
    /\ calls[c].op \in {"np_fb", "tf_fb"}
    /\ calls[c].pc = pc

StepFBForward(c) ==
    /\ IsFB(c, "forward")
    /\ calls[c].t < calls[c].nT
    /\ Set(c, FBForward(hmm, calls[c]))

StepFBBackwardInit(c) ==
    /\ IsFB(c, "forward")
    /\ calls[c].t >= calls[c].nT
    /\ Set(c, FBBackwardInit(hmm, calls[c]))

StepFBBackward(c) ==
    /\ IsFB(c, "backward")
    /\ calls[c].t > 0
    /\ Set(c, FBBackward(hmm, calls[c]))

StepFBCombine(c) ==
    /\ IsFB(c, "backward")
    /\ calls[c].t <= 0
    /\ Set(c, FBCombine(hmm, calls[c]))

\* the caller drops what the call returned or raised
Discard(c) ==
    /\ calls[c].pc = "done"
    /\ Set(c, Idle)

\* nT - len(y) of the callers of HMMTensorflow.viterbi_decode(y, nT)
LengthOffsets == {-1, 0, 1}

\* the emission means of every length up to MaxK
AllEmissionInputs == UNION {EmissionInputs(K) : K \in 0..MaxK}

Next ==
    \/ Construct(AllEmissionInputs, TransitionInputs, InitialInputs)
    \/ Recover
    \/ \E c \in DOMAIN calls : CallViterbi(c, Observations(MaxT, ObsValues))
    \/ \E c \in DOMAIN calls :
         CallTFViterbi(c, Observations(MaxT, ObsValues), LengthOffsets)
    \/ \E c \in DOMAIN calls :
         CallFB(c, Observations(MaxT, ObsValues), {"np_fb", "tf_fb"})
    \/ \E c \in DOMAIN calls : StepViterbiForward(c)
    \/ \E c \in DOMAIN calls : StepViterbiArgmax(c)
    \/ \E c \in DOMAIN calls : StepViterbiBacktrack(c)
    \/ \E c \in DOMAIN calls : StepViterbiReturn(c)
    \/ \E c \in DOMAIN calls : StepTFViterbiForward(c)
    \/ \E c \in DOMAIN calls : StepTFViterbiArgmax(c)
    \/ \E c \in DOMAIN calls : StepTFViterbiBacktrack(c)
    \/ \E c \in DOMAIN calls : StepTFViterbiReturn(c)
    \/ \E c \in DOMAIN calls : StepFBForward(c)
    \/ \E c \in DOMAIN calls : StepFBBackwardInit(c)
    \/ \E c \in DOMAIN calls : StepFBBackward(c)
    \/ \E c \in DOMAIN calls : StepFBCombine(c)
    \/ \E c \in DOMAIN calls : Discard(c)

Spec == Init /\ [][Next]_vars

---------------------------------------------------------------------------
(* The driver's model: P = [[0.5, 0.5], [0, 1]], w = [0, 1], p0 omitted,   *)
(* decoded by both classes; gradient_hmm passes nT = len(y).               *)

ToyObsValues == {0, 1}

NextToy ==
    \/ Construct({<<0, 1>>}, {ChainP(2)}, {<<>>})
    \/ \E c \in DOMAIN calls : CallViterbi(c, Observations(ToyMaxT, ToyObsValues))
    \/ \E c \in DOMAIN calls :
         CallTFViterbi(c, Observations(ToyMaxT, ToyObsValues), {0})
    \/ \E c \in DOMAIN calls : StepViterbiForward(c)
    \/ \E c \in DOMAIN calls : StepViterbiArgmax(c)
    \/ \E c \in DOMAIN calls : StepViterbiBacktrack(c)
    \/ \E c \in DOMAIN calls : StepViterbiReturn(c)
    \/ \E c \in DOMAIN calls : StepTFViterbiForward(c)
    \/ \E c \in DOMAIN calls : StepTFViterbiArgmax(c)
    \/ \E c \in DOMAIN calls : StepTFViterbiBacktrack(c)
    \/ \E c \in DOMAIN calls : StepTFViterbiReturn(c)
    \/ \E c \in DOMAIN calls : Discard(c)

SpecToy == Init /\ [][NextToy]_vars

---------------------------------------------------------------------------
(* Two callers run HMMNumpy inference calls on one shared object; their    *)
(* steps interleave in every order.                                        *)

NextShared ==
    \/ Construct(EmissionInputs(2), {ChainP(2), UniformP(2)}, {<<>>})
    \/ \E c \in DOMAIN calls :
         CallViterbi(c, Observations(SharedMaxT, ToyObsValues))
    \/ \E c \in DOMAIN calls :
         CallFB(c, Observations(SharedMaxT, ToyObsValues), {"np_fb"})
    \/ \E c \in DOMAIN calls : StepViterbiForward(c)
    \/ \E c \in DOMAIN calls : StepViterbiArgmax(c)
    \/ \E c \in DOMAIN calls : StepViterbiBacktrack(c)
    \/ \E c \in DOMAIN calls : StepViterbiReturn(c)
    \/ \E c \in DOMAIN calls : StepFBForward(c)
    \/ \E c \in DOMAIN calls : StepFBBackwardInit(c)
    \/ \E c \in DOMAIN calls : StepFBBackward(c)
    \/ \E c \in DOMAIN calls : StepFBCombine(c)
    \/ \E c \in DOMAIN calls : Discard(c)

SpecShared == InitShared /\ [][NextShared]_vars

---------------------------------------------------------------------------
(* Properties.                                                             *)

Callers == DOMAIN calls

\* the call of caller c has ended
Done(c) == calls[c].pc = "done"

\* the call of caller c was op and has returned its results
Returned(c, op) == Done(c) /\ calls[c].op = op /\ calls[c].outcome = "returned"

ViterbiOps == {"np_viterbi", "tf_viterbi"}
FBOps == {"np_fb", "tf_fb"}

\* every path of T states, 0-based
Paths(K, T) == [1..T -> 0..(K - 1)]

\* the joint log score of path q with observations y:
\* logp0[q[0]] + log_lik(y[0])[q[0]]
\*   + sum over t >= 1 of logP[q[t-1]][q[t]] + log_lik(y[t])[q[t]]
RECURSIVE JointScore(_, _, _, _)
JointScore(h, y, q, n) ==
    IF n = 1
    THEN LAdd(h.logp0[q[1] + 1], log_lik(h, y[1])[q[1] + 1])
    ELSE LAdd(JointScore(h, y, q, n - 1),
              LAdd(h.logP[q[n - 1] + 1][q[n] + 1], log_lik(h, y[n])[q[n] + 1]))

\* C1: the path returned by HMMNumpy.viterbi_decode has the largest joint log
\* score of all K^T paths, and that score is the maximum of the last row of
\* pathScores.
C1_ViterbiOptimal ==
    \A c \in Callers :
        Returned(c, "np_viterbi") =>
            LET r == calls[c]
                T == Len(r.y)
                best == JointScore(hmm, r.y, r.s, T)
            IN /\ Len(r.s) = T
               /\ \A q \in Paths(hmm.K, T) : JointScore(hmm, r.y, q, T) <= best
               /\ best = VecMax(r.pathScores[T])

\* a decoded path that changes state, beats a path of finite score and a path
\* of score -inf
C1_Witness ==
    \E c \in Callers :
        /\ Returned(c, "np_viterbi")
        /\ Len(calls[c].y) = 3
        /\ calls[c].s[1] # calls[c].s[3]
        /\ \E q \in Paths(hmm.K, 3) :
             /\ JointScore(hmm, calls[c].y, q, 3) > NegInf
             /\ JointScore(hmm, calls[c].y, q, 3)
                  < JointScore(hmm, calls[c].y, calls[c].s, 3)
        /\ \E q \in Paths(hmm.K, 3) : JointScore(hmm, calls[c].y, q, 3) = NegInf

\* i is the lowest 0-based index at which v is largest
LowestMax(v, i) ==
    /\ i \in 0..(Len(v) - 1)
    /\ \A k \in 1..Len(v) : v[k] <= v[i + 1]
    /\ \A k \in 1..i : v[k] < v[i + 1]

\* v is largest at two indices or more
Tied(v) == \E i, k \in 1..Len(v) : i # k /\ v[i] = v[k] /\ \A x \in 1..Len(v) : v[x] <= v[i]

\* column j of the matrix pathScores[t-1][i] + logP[i][j] (t, j 0-based)
ScoreColumn(h, r, t, j) ==
    [i \in 1..h.K |-> LAdd(r.pathScores[t][i], h.logP[i][j + 1])]

C4_NoReturnToZero ==
    \A c \in Callers : \A op \in ViterbiOps :
        Returned(c, op) =>
            \A t \in 1..(Len(calls[c].s) - 1) :
                calls[c].s[t] = 1 => calls[c].s[t + 1] = 1

\* the driver's observations, decoded to a path that enters state 1
C4_Witness ==
    \E c \in Callers :
        /\ Returned(c, "np_viterbi")
        /\ hmm.P = <<<<500, 500>>, <<0, 1000>>>>
        /\ hmm.w = <<0, 1>>
        /\ calls[c].y = <<0, 1, 0, 0, 1, 1, 1, 1, 1>>
        /\ calls[c].s = <<0, 1, 1, 1, 1, 1, 1, 1, 1>>

\* the constructor was given a transition array that is not K x K or an
\* initial distribution that has not K entries
ShapeMismatch ==
    \/ Shape(ctor.P) # <<Len(ctor.w), Len(ctor.w)>>
    \/ ctor.p0 # <<>> /\ Len(ctor.p0[1]) # Len(ctor.w)

\* C5: the constructor raises ValueError and leaves no object exactly when the
\* shapes mismatch, and constructs the object in every other case.
C5_ShapeValidation ==
    ctor.outcome # "none" =>
        /\ ShapeMismatch => ctor.outcome = "ValueError" /\ hmm = NoHMM
        /\ ~ShapeMismatch =>
              /\ ctor.outcome = "ok"
              /\ hmm # NoHMM
              /\ hmm.K = Len(ctor.w)
              /\ hmm.P = ctor.P

\* a transition array of shape (K, K + 1) was refused
C5_Witness ==
    /\ ctor.outcome = "ValueError"
    /\ Len(ctor.w) = 2
    /\ Shape(ctor.P) = <<2, 3>>
    /\ ctor.p0 = <<>>
    /\ hmm = NoHMM

\* the three arrays forward_backward returned to caller c
Outputs(c) == <<calls[c].posterior, calls[c].forward, calls[c].backward>>

\* some renormalization of the call divided by a sum of 0
Degenerate(c) ==
    \E a \in 1..3 : \E t \in 1..Len(Outputs(c)[a]) : IsNaN(Outputs(c)[a][t])

\* every row of every returned array sums to 1 within tol units
RowSumsWithin(c, tol) ==
    \A a \in 1..3 :
        /\ Len(Outputs(c)[a]) = Len(calls[c].y)
        /\ \A t \in 1..Len(Outputs(c)[a]) :
              Abs(Sum(Outputs(c)[a][t]) - SCALE) <= tol

\* C2 as stated: when no renormalization divides by 0, every row of
\* posterior, forward and backward sums to exactly 1.
C2_RowsSumToOneExactly ==
    \A c \in Callers : \A op \in FBOps :
        Returned(c, op) /\ ~Degenerate(c) => RowSumsWithin(c, 0)

\* C2 as amended: when no renormalization divides by 0, every row of
\* posterior, forward and backward sums to 1 within the rounding error of
\* the K quotients of the row, at most half a unit each.
C2_RowsSumToOneRounded ==
    \A c \in Callers : \A op \in FBOps :
        Returned(c, op) /\ ~Degenerate(c) => RowSumsWithin(c, hmm.K \div 2)

\* a returned forward_backward over two observations or more on the three-state
\* chain, without a zero sum, in which a row does not sum to exactly 1
C2_Witness ==
    \E c \in Callers :
        /\ Returned(c, "np_fb")
        /\ ~Degenerate(c)
        /\ Len(calls[c].y) >= 2
        /\ hmm.K = 3
        /\ hmm.P = ChainP(3)
        /\ ~RowSumsWithin(c, 0)

\* C6: a forward_backward in which a renormalization divides by 0 does not
\* return arrays that hold nan; it ends with a reported error.
C6_DegenerateIsReported ==
    \A c \in Callers : \A op \in FBOps :
        Done(c) /\ calls[c].op = op /\ Degenerate(c) =>
            calls[c].outcome # "returned"

\* C7: no inference call on an empty observation sequence returns a result.
C7_EmptySequenceRejected ==
    \A c \in Callers :
        Done(c) /\ Len(calls[c].y) = 0 => calls[c].outcome # "returned"

\* C8: on a model of K >= 1 states and T >= 1 observations both
\* viterbi_decode return a path of exactly T states of 0..K-1 and raise no
\* IndexError.
C8_PathValid ==
    \A c \in Callers : \A op \in ViterbiOps :
        Done(c) /\ calls[c].op = op /\ hmm.K >= 1 /\ Len(calls[c].y) >= 1 =>
            /\ calls[c].outcome = "returned"
            /\ Len(calls[c].s) = Len(calls[c].y)
            /\ \A t \in 1..Len(calls[c].s) : calls[c].s[t] \in 0..(hmm.K - 1)

\* the part of C8 the code keeps: HMMNumpy.viterbi_decode(y), and
\* HMMTensorflow.viterbi_decode(y, nT) when nT = len(y)
PathValidWhenLengthGiven ==
    \A c \in Callers : \A op \in ViterbiOps :
        /\ Done(c) /\ calls[c].op = op /\ hmm.K >= 1 /\ Len(calls[c].y) >= 1
        /\ calls[c].nT = Len(calls[c].y)
        => /\ calls[c].outcome = "returned"
           /\ Len(calls[c].s) = Len(calls[c].y)
           /\ \A t \in 1..Len(calls[c].s) : calls[c].s[t] \in 0..(hmm.K - 1)

\* two ended calls of the same routine on the same observations ended alike
SameCallSameResult ==
    \A c, d \in Callers :
        /\ Done(c) /\ Done(d)
        /\ calls[c].op = calls[d].op
        /\ calls[c].y = calls[d].y
        => calls[c] = calls[d]

\* C9: no step of an inference call changes the constructed object, and two
\* calls of the same routine on the same observations end with the same
\* results, whatever other calls ran between or interleaved with them.
C9_SharedModelReadOnly ==
    [][(hmm # NoHMM => hmm' = hmm) /\ SameCallSameResult']_vars

\* both callers have returned from the same decoding of two observations
\* while the object is what the constructor built
C9_Witness ==
    /\ Returned(1, "np_viterbi")
    /\ Returned(2, "np_viterbi")
    /\ calls[1].y = calls[2].y
    /\ Len(calls[1].y) = 2
    /\ hmm = HMMInit(ctor.w, ctor.P, ctor.p0).obj

===========================================================================
